---- MODULE Spec2Model ----
(***************************************************************************)
(* Backend relay of the AI Chrome extension: the GroqHandler adapters      *)
(* (lib/groq-handler.ts), the audio format validator (lib/audio-utils.ts)  *)
(* and the two HTTP routes (app/api/transcribe, app/api/process).          *)
(*                                                                         *)
(* JavaScript values are modelled as strings; `undefined`, `null` and NaN  *)
(* are the tokens Undefined, Null and NaN.  A file-system path is the pair *)
(* <<Date.now(), extension>> (the directory and the "audio-" prefix are    *)
(* the same for every call).                                               *)
(***************************************************************************)
EXTENDS Integers, Sequences, FiniteSets, TLC

VARIABLES
    now,        \* the value Date.now() returns
    fs,         \* the temp directory: path -> file content, or Absent
    calls,      \* the transcribeAudio invocations, by call id
    nodeEnv,    \* process.env.NODE_ENV
    util,       \* the AudioUtils helpers applied to a MIME type, and what they returned
    treq,       \* the POST /transcribe request being handled, or NoRequest
    tpc,        \* where the transcribe route handler is
    bodyReads,  \* how many times the transcribe handler called formData() or json()
    tlocals,    \* the transcribe handler's locals `model` and `language`
    tresp,      \* the response of the transcribe route, or NoResponse
    preq,       \* the POST /process request being handled, or NoProcessRequest
    ppc,        \* where the process route handler is
    pinvoked,   \* the components the process handler has invoked, in order
    pargs,      \* the argument the handler gave processRequest, or NoArgs
    psent,      \* the payload sent to the chat-completion endpoint, or NoPayload
    pcompletion, \* what the chat-completion endpoint answered, or None
    presp       \* the response of the process route, or NoProcessResponse

tvars == <<treq, tpc, bodyReads, tlocals, tresp>>
pvars == <<preq, ppc, pinvoked, pargs, psent, pcompletion, presp>>
vars == <<now, fs, calls, nodeEnv, util, tvars, pvars>>

(***************************** bounds **************************************)
NumCalls == 2       \* concurrent transcribeAudio invocations
MaxTime == 1        \* Date.now() ranges over 0..MaxTime

Calls == 1..NumCalls
Times == 0..MaxTime

(************************* JavaScript values *******************************)
Undefined == "<undefined>"
Null == "<null>"
NaN == "<NaN>"
Zero == "0"

\* JavaScript truthiness of the values the model uses
Falsy(v) == v \in {Undefined, Null, NaN, Zero, ""}

\* a || b
Or(a, b) == IF Falsy(a) THEN b ELSE a

(******************* property lookup in an object literal ******************)
\* the members every object literal inherits from Object.prototype
ObjectPrototypeKeys ==
    {"constructor", "toString", "valueOf", "hasOwnProperty", "isPrototypeOf",
     "propertyIsEnumerable", "toLocaleString", "__proto__"}

\* what table[key] yields for an inherited member: a function or an object
Inherited == "<member of Object.prototype>"

\* table[key] of a table written as an object literal
lookup(table, key) ==
    IF key \in DOMAIN table THEN table[key]
    ELSE IF key \in ObjectPrototypeKeys THEN Inherited
    ELSE Undefined

(************************** audio-utils.ts *********************************)
SupportedFormats == {"audio/wav", "audio/webm", "audio/mpeg", "audio/mp4", "audio/ogg"}

validateAudioFormat_AcceptAll(mimeType) == TRUE

validateAudioFormat_AnyAudio(mimeType) ==
    mimeType \in SupportedFormats \cup {"audio/x-wav", "audio/unknown"}

\* supportedFormats.includes(mimeType)
validateAudioFormat(mimeType) == mimeType \in SupportedFormats

extensions ==
    [m \in SupportedFormats |->
        CASE m = "audio/wav" -> "wav"
          [] m = "audio/webm" -> "webm"
          [] m = "audio/mpeg" -> "mp3"
          [] m = "audio/mp4" -> "m4a"
          [] m = "audio/ogg" -> "ogg"]

\* extensions[mimeType] || 'wav'
getFileExtension(mimeType) == Or(lookup(extensions, mimeType), "wav")

(************************** temp files *************************************)
Absent == "<absent>"
Partial == "<partial>"      \* what a failed writeFileSync may leave behind
Extensions == {"webm", "mp3", "mp4", "ogg", "wav"}
Paths == Times \X Extensions
NoPath == <<>>

formatMap ==
    [m \in SupportedFormats |->
        CASE m = "audio/webm" -> "webm"
          [] m = "audio/mpeg" -> "mp3"
          [] m = "audio/mp4" -> "mp4"
          [] m = "audio/ogg" -> "ogg"
          [] m = "audio/wav" -> "wav"]

\* formatMap[mimeType] || 'wav'
getFfmpegFormat(mimeType) == Or(lookup(formatMap, mimeType), "wav")

\* path.join(os.tmpdir(), `audio-${Date.now()}.${getFfmpegFormat(mimeType)}`)
tempFilePath(t, mimeType) == <<t, getFfmpegFormat(mimeType)>>

existsSync(disk, p) == disk[p] # Absent

writeFile(disk, p, data) == [disk EXCEPT ![p] = data]

unlink(disk, p) == [disk EXCEPT ![p] = Absent]

\* the outcomes of fs.writeFileSync(p, data): written, or thrown with the
\* directory untouched, or thrown with a truncated file left at p
WriteOutcomes == {"ok", "fail_clean", "fail_partial"}

writeFileSync(disk, p, data, outcome) ==
    CASE outcome = "ok" -> writeFile(disk, p, data)
      [] outcome = "fail_clean" -> disk
      [] outcome = "fail_partial" -> writeFile(disk, p, Partial)

(********************* GroqHandler.transcribeAudio *************************)
AudioContents == {"a1", "a2"}
FileContents == AudioContents \cup {"", Partial}
Unopened == "<unopened>"
StreamENOENT == "<ENOENT>"

DefaultTranscriptionModel == "whisper-large-v3-turbo"
DefaultLanguage == "en"

\* options = {} : every option undefined
NoOptions == [model |-> Undefined, language |-> Undefined, temperature |-> Undefined]

NoRemote ==
    [model |-> "<none>", prompt |-> "<none>", response_format |-> "<none>",
     language |-> "<none>", temperature |-> "<none>"]

\* the arguments of client.audio.transcriptions.create, the file stream aside
transcriptionParams(options) ==
    [model |-> Or(options.model, DefaultTranscriptionModel),
     prompt |-> "",
     response_format |-> "json",
     language |-> Or(options.language, DefaultLanguage),
     temperature |-> Or(options.temperature, Zero)]

\* the remote service: the text it returns for the bytes it was streamed
Transcript ==
    [c \in FileContents |->
        CASE c = "a1" -> "text of a1"
          [] c = "a2" -> "text of a2"
          [] c = "" -> "text of nothing"
          [] c = Partial -> "text of a truncated file"]

IdleCall ==
    [pc |-> "idle", audio |-> "", mimeType |-> "", options |-> NoOptions,
     path |-> NoPath, stream |-> Unopened, remote |-> NoRemote, apiCalls |-> 0,
     ok |-> FALSE, text |-> "", message |-> <<>>]

\* the outer catch: throw new Error(`Transcription failed: ${error.message}`)
transcriptionFailed(call, cause) ==
    [call EXCEPT !.pc = "done", !.ok = FALSE,
                 !.message = <<"Transcription failed: ">> \o cause]

cleanupOnError_NoUnlink(disk, p) == disk

\* the inner catch: if (fs.existsSync(tempFilePath)) fs.unlinkSync(tempFilePath)
cleanupOnError(disk, p) == IF existsSync(disk, p) THEN unlink(disk, p) ELSE disk

\* transcribeAudio from its entry to its first await: the format check, the
\* path, the write, the stream and the request to the remote endpoint
transcribeAudioStart(disk, t, audioBuffer, mimeType, options, writeOutcome) ==
    LET entered == [IdleCall EXCEPT !.audio = audioBuffer, !.mimeType = mimeType,
                                    !.options = options]
    IN  IF ~validateAudioFormat(mimeType)
        THEN [call |-> transcriptionFailed(entered,
                          <<"Unsupported audio format: ", mimeType>>),
              fs |-> disk]
        ELSE LET p == tempFilePath(t, mimeType)
                 written == writeFileSync(disk, p, audioBuffer, writeOutcome)
                 withPath == [entered EXCEPT !.path = p]
             IN  IF writeOutcome = "ok"
                 THEN [call |-> [withPath EXCEPT
                                    !.pc = "awaiting",
                                    !.remote = transcriptionParams(options),
                                    !.apiCalls = @ + 1],
                       fs |-> written]
                 ELSE [call |-> transcriptionFailed(withPath,
                                    <<"ENOSPC: no space left on device, write">>),
                       fs |-> cleanupOnError(written, p)]

\* fs.createReadStream opens the path after the caller has yielded: it streams
\* what the path holds then, or fails when the path is gone
openStream(disk, call) ==
    [call EXCEPT !.stream = IF existsSync(disk, call.path)
                            THEN disk[call.path] ELSE StreamENOENT]

\* the remote call returned: fs.unlinkSync(tempFilePath); return transcription.text
\* (unlinkSync throws ENOENT when the path is gone, which the catches handle)
unlinkAfterSuccess(disk, call) ==
    IF existsSync(disk, call.path)
    THEN [call |-> [call EXCEPT !.pc = "done", !.ok = TRUE,
                                !.text = Transcript[call.stream]],
          fs |-> unlink(disk, call.path)]
    ELSE [call |-> transcriptionFailed(call,
                      <<"ENOENT: no such file or directory, unlink">>),
          fs |-> cleanupOnError(disk, call.path)]

\* the outcomes of the awaited remote call
RemoteOutcomes == {"ok", "error"}

transcribeAudioResume_Retry(disk, call, outcome) ==
    IF outcome = "ok"
    THEN unlinkAfterSuccess(disk, call)
    ELSE [call |-> [call EXCEPT !.apiCalls = @ + 1], fs |-> disk]

\* transcribeAudio from the await to its return or throw
transcribeAudioResume(disk, call, outcome) ==
    IF outcome = "ok"
    THEN unlinkAfterSuccess(disk, call)
    ELSE [call |-> transcriptionFailed(call,
                      IF call.stream = StreamENOENT
                      THEN <<"ENOENT: no such file or directory, open">>
                      ELSE <<"Connection error.">>),
          fs |-> cleanupOnError(disk, call.path)]

\* the remote endpoint answers with a transcript only once it was streamed the file
CanSettle(call, outcome) ==
    /\ call.pc = "awaiting"
    /\ outcome = "ok" => call.stream \in FileContents

(********************* app/api/transcribe/route.ts *************************)
NodeEnvs == {"development", "production", "test"}

Multipart == "multipart/form-data"
Json == "application/json"
ContentTypes == {Multipart, Json, "text/plain"}

None == "<none>"

\* A POST /transcribe request.  `body` says whether the body parses ("ok"),
\* is the JSON literal null ("null") or does not parse ("malformed").  In a
\* multipart body `audio` is the bytes of the file field (Null: no such
\* field) and `mimeType` the file's type; in a JSON body `audio` is the
\* base64 text (Undefined: no such key) and `mimeType` the key of that name.
NoRequest ==
    [variant |-> None, contentType |-> None, body |-> None, audio |-> None,
     mimeType |-> None, model |-> None, language |-> None, temperature |-> None]

MimeInputs == {"audio/wav", "audio/mpeg", "audio/unknown"}

FormRequests ==
    [variant : {"simple", "enhanced"}, contentType : {Multipart},
     body : {"ok", "malformed"}, audio : {Null, "", "a1"},
     mimeType : MimeInputs \cup {""},
     model : {Null, "whisper-large-v3"}, language : {Null, "fr"},
     temperature : {Null, "0.5"}]

JsonRequests ==
    [variant : {"simple", "enhanced"}, contentType : {Json},
     body : {"ok", "null", "malformed"}, audio : {Undefined, "", "YTE="},
     mimeType : MimeInputs \cup {Undefined},
     model : {Undefined, "whisper-large-v3"}, language : {Undefined, "fr"},
     temperature : {Undefined, "0.5"}]

OtherRequests ==
    [variant : {"simple", "enhanced"}, contentType : {"text/plain"},
     body : {"ok"}, audio : {Undefined}, mimeType : {Undefined},
     model : {Undefined}, language : {Undefined}, temperature : {Undefined}]

TranscribeRequests == FormRequests \cup JsonRequests \cup OtherRequests

\* Buffer.from(text, 'base64')
base64Decode(text) == IF text = "YTE=" THEN "a1" ELSE ""

\* parseFloat
parseFloat(v) ==
    IF v \in {Null, Undefined, NaN, ""} THEN NaN
    ELSE IF v \in {"0.0", Zero} THEN Zero ELSE v

NoResponse ==
    [status |-> 0, error |-> None, message |-> <<>>, stack |-> FALSE,
     transcription |-> None, success |-> FALSE, model |-> None, language |-> None]

NoLocals == [model |-> None, language |-> None]

badRequest_AsServerError(error) == [NoResponse EXCEPT !.status = 500, !.error = error]

\* NextResponse.json({error, instructions}, {status: 400})
badRequest(error) == [NoResponse EXCEPT !.status = 400, !.error = error]

transcriptionError_AlwaysStack(message, env) ==
    [NoResponse EXCEPT !.status = 500, !.error = "Transcription failed",
                       !.message = message, !.stack = TRUE]

\* the catch of the route: 500 with the error's message, and the stack in development
transcriptionError(message, env) ==
    [NoResponse EXCEPT !.status = 500, !.error = "Transcription failed",
                       !.message = message, !.stack = (env = "development")]

\* NextResponse.json({transcription, success: true, model, language})
transcriptionOk(text, model, language) ==
    [NoResponse EXCEPT !.status = 200, !.transcription = text, !.success = TRUE,
                       !.model = model, !.language = language]

BodyUsedMessage == <<"Body is unusable: Body has already been read">>

\* the parse of a body read for the first time
parseBody(reads, req, as) ==
    IF (as = "formData" /\ req.contentType # Multipart)
    THEN [threw |-> TRUE, reads |-> reads + 1,
          message |-> <<"Content-Type was not multipart/form-data">>]
    ELSE IF req.body = "malformed" \/ (as = "json" /\ req.contentType = Multipart)
    THEN [threw |-> TRUE, reads |-> reads + 1, message |-> <<"Failed to parse body">>]
    ELSE [threw |-> FALSE, reads |-> reads + 1, message |-> <<>>]

\* request.formData() / request.json(): a body is read once; a second read
\* rejects with a TypeError, and so does a body that does not parse
readBody(reads, req, as) ==
    IF reads > 0
    THEN [threw |-> TRUE, reads |-> reads + 1, message |-> BodyUsedMessage]
    ELSE parseBody(reads, req, as)

\* a step of a handler: "throw" (to the catch), "respond" (an early return)
\* or "continue" with the locals computed so far
Step(step, reads, response, message, audioBuffer, mimeType, options) ==
    [step |-> step, reads |-> reads, response |-> response, message |-> message,
     audioBuffer |-> audioBuffer, mimeType |-> mimeType, options |-> options]

Throw(reads, message) == Step("throw", reads, NoResponse, message, "", "", NoOptions)
Respond(reads, response) == Step("respond", reads, response, <<>>, "", "", NoOptions)
Continue(reads, audioBuffer, mimeType, options) ==
    Step("continue", reads, NoResponse, <<>>, audioBuffer, mimeType, options)

\* the form-data only handler, up to its call of transcribeAudio
simpleParse(req) ==
    LET form == readBody(0, req, "formData")
    IN  IF form.threw THEN Throw(form.reads, form.message)
        ELSE IF req.audio = Null
        THEN Respond(form.reads, badRequest("No audio file provided"))
        ELSE Continue(form.reads, req.audio, req.mimeType,
                      [model |-> Or(req.model, DefaultTranscriptionModel),
                       language |-> Or(req.language, DefaultLanguage),
                       temperature |-> parseFloat(Or(req.temperature, "0.0"))])

\* the form-data + JSON handler: the branch on the content type that yields
\* audioBuffer and mimeType
enhancedAudio(req) ==
    IF req.contentType = Multipart
    THEN LET form == readBody(0, req, "formData")
         IN  IF form.threw THEN Throw(form.reads, form.message)
             ELSE IF req.audio = Null
             THEN Respond(form.reads, badRequest("No audio file provided in FormData"))
             ELSE Continue(form.reads, req.audio, Or(req.mimeType, "audio/webm"),
                           NoOptions)
    ELSE IF req.contentType = Json
    THEN LET body == readBody(0, req, "json")
         IN  IF body.threw THEN Throw(body.reads, body.message)
             ELSE IF req.body = "null"
             THEN Throw(body.reads, <<"Cannot convert undefined or null to object">>)
             ELSE IF Falsy(req.audio)
             THEN Respond(body.reads, badRequest("No audio data provided"))
             ELSE Continue(body.reads, base64Decode(req.audio),
                           Or(req.mimeType, "audio/webm"), NoOptions)
    ELSE Respond(0, badRequest("Unsupported content type"))

\* const { model = ..., language = ..., temperature = 0.0 } = options:
\* a default applies to undefined only
defaulted(v, default) == IF v = Undefined THEN default ELSE v

\* the form-data + JSON handler: "Get options from request body", which
\* reads the body again, and the destructuring of the options
enhancedOptions(req, audio) ==
    LET again == readBody(audio.reads, req,
                          IF req.contentType = Json THEN "json" ELSE "formData")
    IN  IF again.threw THEN Throw(again.reads, again.message)
        ELSE Continue(again.reads, audio.audioBuffer, audio.mimeType,
                      [model |-> defaulted(req.model, DefaultTranscriptionModel),
                       language |-> defaulted(req.language, DefaultLanguage),
                       temperature |-> parseFloat(defaulted(req.temperature, Zero))])

enhancedParse(req) ==
    LET audio == enhancedAudio(req)
    IN  IF audio.step = "continue" THEN enhancedOptions(req, audio) ELSE audio

(***************************** actions **************************************)
\* no AudioUtils helper applied
NoUtil == [mimeType |-> None, validated |-> FALSE, valid |-> FALSE,
           mapped |-> FALSE, extension |-> None]

EmptyDisk == [p \in Paths |-> Absent]

\* the transcribeAudio invocation a route request makes
RouteCall == 1

\* Date.now() moves on
Tick ==
    /\ now < MaxTime
    /\ now' = now + 1
    /\ UNCHANGED <<fs, calls, nodeEnv, util, tvars, pvars>>

\* a caller invokes groqHandler.transcribeAudio(audioBuffer, mimeType): the
\* call runs to its first await
TranscribeAudio(c) ==
    /\ calls[c].pc = "idle"
    /\ \A d \in Calls : d < c => calls[d].pc # "idle"
    /\ \E audioBuffer \in AudioContents, mimeType \in MimeInputs, w \in WriteOutcomes :
         LET started == transcribeAudioStart(fs, now, audioBuffer, mimeType, NoOptions, w)
         IN  /\ calls' = [calls EXCEPT ![c] = started.call]
             /\ fs' = started.fs
    /\ UNCHANGED <<now, nodeEnv, util, tvars, pvars>>

\* the read stream of an in-flight call opens its file
OpenStream(c) ==
    /\ calls[c].pc = "awaiting"
    /\ calls[c].stream = Unopened
    /\ calls' = [calls EXCEPT ![c] = openStream(fs, calls[c])]
    /\ UNCHANGED <<now, fs, nodeEnv, util, tvars, pvars>>

\* the awaited remote call of a directly invoked transcribeAudio settles and
\* the call runs to its end
TranscriptionSettles(c) ==
    /\ \E outcome \in RemoteOutcomes :
         /\ CanSettle(calls[c], outcome)
         /\ LET resumed == transcribeAudioResume(fs, calls[c], outcome)
            IN  /\ calls' = [calls EXCEPT ![c] = resumed.call]
                /\ fs' = resumed.fs
    /\ UNCHANGED <<now, nodeEnv, util, tvars, pvars>>

\* a caller applies AudioUtils.validateAudioFormat to the MIME type at hand
ValidateAudioFormat ==
    /\ util.mimeType # None
    /\ ~util.validated
    /\ util' = [util EXCEPT !.validated = TRUE,
                            !.valid = validateAudioFormat(util.mimeType)]
    /\ UNCHANGED <<now, fs, calls, nodeEnv, tvars, pvars>>

\* a caller applies AudioUtils.getFileExtension to the MIME type at hand
GetFileExtension ==
    /\ util.mimeType # None
    /\ ~util.mapped
    /\ util' = [util EXCEPT !.mapped = TRUE,
                            !.extension = getFileExtension(util.mimeType)]
    /\ UNCHANGED <<now, fs, calls, nodeEnv, tvars, pvars>>

\* a caller invokes groqHandler.transcribeAudio with the MIME type at hand
TranscribeGivenFormat(c) ==
    /\ util.mimeType # None
    /\ calls[c].pc = "idle"
    /\ \A d \in Calls : d < c => calls[d].pc # "idle"
    /\ \E audioBuffer \in AudioContents, w \in WriteOutcomes :
         LET started == transcribeAudioStart(fs, now, audioBuffer, util.mimeType,
                                             NoOptions, w)
         IN  /\ calls' = [calls EXCEPT ![c] = started.call]
             /\ fs' = started.fs
    /\ UNCHANGED <<now, nodeEnv, util, tvars, pvars>>

\* a handler of POST /transcribe from the request to its response or to the
\* await of transcribeAudio
HandleTranscribe(parsed) ==
    /\ bodyReads' = parsed.reads
    /\ IF parsed.step = "respond"
       THEN /\ tresp' = parsed.response
            /\ tpc' = "responded"
            /\ UNCHANGED <<fs, calls, tlocals>>
       ELSE IF parsed.step = "throw"
       THEN /\ tresp' = transcriptionError(parsed.message, nodeEnv)
            /\ tpc' = "responded"
            /\ UNCHANGED <<fs, calls, tlocals>>
       ELSE \E w \in WriteOutcomes :
              LET started == transcribeAudioStart(fs, now, parsed.audioBuffer,
                                 parsed.mimeType, parsed.options, w)
              IN  /\ calls' = [calls EXCEPT ![RouteCall] = started.call]
                  /\ fs' = started.fs
                  /\ tlocals' = [model |-> parsed.options.model,
                                 language |-> parsed.options.language]
                  /\ IF started.call.pc = "done"
                     THEN /\ tresp' = transcriptionError(started.call.message, nodeEnv)
                          /\ tpc' = "responded"
                     ELSE /\ tpc' = "awaiting"
                          /\ UNCHANGED tresp
    /\ UNCHANGED <<now, nodeEnv, util, treq, pvars>>

\* POST of the form-data only variant
POSTTranscribeSimple ==
    /\ tpc = "received"
    /\ treq.variant = "simple"
    /\ HandleTranscribe(simpleParse(treq))

\* POST of the form-data + JSON variant
POSTTranscribeEnhanced ==
    /\ tpc = "received"
    /\ treq.variant = "enhanced"
    /\ HandleTranscribe(enhancedParse(treq))

\* the transcribeAudio a handler awaits settles: the handler responds
TranscribeRouteSettles ==
    /\ tpc = "awaiting"
    /\ \E outcome \in RemoteOutcomes :
         /\ CanSettle(calls[RouteCall], outcome)
         /\ LET resumed == transcribeAudioResume(fs, calls[RouteCall], outcome)
            IN  /\ calls' = [calls EXCEPT ![RouteCall] = resumed.call]
                /\ fs' = resumed.fs
                /\ tresp' = IF resumed.call.ok
                            THEN transcriptionOk(resumed.call.text, tlocals.model,
                                                 tlocals.language)
                            ELSE transcriptionError(resumed.call.message, nodeEnv)
    /\ tpc' = "responded"
    /\ UNCHANGED <<now, nodeEnv, util, treq, bodyReads, tlocals, pvars>>

(********************** texts of the process route *************************)
\* A JavaScript string that is concatenated or cut is a sequence of pieces
\* (characters, or whole fixed phrases); undefined and null are the
\* one-piece texts below, which no request text equals.
UndefinedText == <<Undefined>>
NullText == <<Null>>
Whitespace == {" ", "\t", "\n"}

FalsyText(t) == t \in {<<>>, UndefinedText, NullText}

\* a || b
OrText(a, b) == IF FalsyText(a) THEN b ELSE a

\* a && b
AndText(a, b) == IF FalsyText(a) THEN a ELSE b

RECURSIVE trimStart(_)
trimStart(t) ==
    IF t # <<>> /\ Head(t) \in Whitespace THEN trimStart(Tail(t)) ELSE t

RECURSIVE trimEnd(_)
trimEnd(t) ==
    IF t # <<>> /\ t[Len(t)] \in Whitespace THEN trimEnd(SubSeq(t, 1, Len(t) - 1)) ELSE t

\* String.prototype.trim
trim(t) == trimEnd(trimStart(t))

substring_OneShort(t, n) == SubSeq(t, 1, IF Len(t) < n THEN Len(t) ELSE n - 1)

\* String.prototype.substring(0, n)
substring(t, n) == SubSeq(t, 1, IF Len(t) < n THEN Len(t) ELSE n)

\* parts.filter(Boolean)
RECURSIVE filterBoolean(_)
filterBoolean(parts) ==
    IF parts = <<>> THEN <<>>
    ELSE IF FalsyText(Head(parts)) THEN filterBoolean(Tail(parts))
    ELSE <<Head(parts)>> \o filterBoolean(Tail(parts))

\* parts.join(sep)
RECURSIVE join(_, _)
join(parts, sep) ==
    IF parts = <<>> THEN <<>>
    ELSE IF Len(parts) = 1 THEN Head(parts)
    ELSE Head(parts) \o <<sep>> \o join(Tail(parts), sep)

(******************* lookup of a table of texts ****************************)
\* table[key] of a table whose values are texts
lookupText(table, key) ==
    IF key \in DOMAIN table THEN table[key] ELSE <<lookup(table, key)>>

(******************* GroqHandler: per-feature tuning ***********************)
TunedFeatures ==
    {"search", "explain", "summarize", "extract", "analyze", "reply", "ask", "stt"}

temperatures ==
    [f \in TunedFeatures |->
        CASE f = "search" -> "0.7"
          [] f = "explain" -> "0.3"
          [] f = "summarize" -> "0.2"
          [] f = "extract" -> "0.1"
          [] f = "analyze" -> "0.5"
          [] f = "reply" -> "0.6"
          [] f = "ask" -> "0.3"
          [] f = "stt" -> "0.4"]

tokenLimits ==
    [f \in TunedFeatures |->
        CASE f = "summarize" -> "1024"
          [] f = "extract" -> "1024"
          [] f = "reply" -> "512"
          [] f = "explain" -> "2048"
          [] f = "analyze" -> "2048"
          [] f = "search" -> "2048"
          [] f = "ask" -> "2048"
          [] f = "stt" -> "1024"]

DefaultTemperature == "0.7"
DefaultMaxTokens == "2048"

\* temperatures[feature] || 0.7
getTemperatureForFeature(feature) == Or(lookup(temperatures, feature), DefaultTemperature)

\* tokenLimits[feature] || 2048
getMaxTokensForFeature(feature) == Or(lookup(tokenLimits, feature), DefaultMaxTokens)

(******************* GroqHandler: the message sequence *********************)
PageKeys == {"title", "url", "contentType", "wordCount", "selectedText", "mainText"}

\* an absent pageInfo, and an absent key of it, read as undefined
NoPage == [k \in PageKeys |-> UndefinedText]

SelectedTextLimit == 2000
MainTextLimit == 6000

CurrentDate == <<"<current date and time>">>

featureSpecificInstructions ==
    [f \in TunedFeatures |->
        CASE f = "search" -> <<"Provide comprehensive, well-researched answers. Include relevant details and sources when possible.">>
          [] f = "explain" -> <<"Break down complex concepts into simple, easy-to-understand terms. Use analogies and examples.">>
          [] f = "summarize" -> <<"Focus on key points and main ideas. Be concise but comprehensive.">>
          [] f = "extract" -> <<"Organize information in a structured format. Use tables, lists, or bullet points when helpful.">>
          [] f = "analyze" -> <<"Provide critical analysis with balanced perspectives. Support your analysis with evidence.">>
          [] f = "reply" -> <<"Craft professional, context-appropriate responses. Match the tone to the situation.">>
          [] f = "ask" -> <<"Answer questions accurately based on the provided context. Cite specific parts of the content when relevant.">>
          [] f = "stt" -> <<"Process spoken input naturally and contextually.">>]

buildSystemPrompt(feature, featurePrompt, pageInfo, currentDate) ==
    LET baseInstructions ==
            << <<"You are a helpful AI assistant that helps with web browsing tasks.">>,
               <<"Current date and time: ">> \o currentDate,
               <<"Provide clear, concise, and accurate responses.">>,
               <<"Use markdown formatting when appropriate for better readability.">>,
               <<"Be honest about the limitations of your knowledge.">>,
               <<"If you need more context, ask clarifying questions.">> >>
        instructions ==
            baseInstructions \o
            << OrText(lookupText(featureSpecificInstructions, feature), featurePrompt),
               AndText(pageInfo.title, <<"Current page: ">> \o pageInfo.title),
               AndText(pageInfo.contentType, <<"Content type: ">> \o pageInfo.contentType) >>
    IN  join(filterBoolean(instructions), "\n")

taskFraming(query) ==
    [f \in TunedFeatures |->
        CASE f = "search" -> <<"Search and provide information about: ">> \o query
          [] f = "explain" -> <<"Explain: ">> \o query
          [] f = "summarize" -> <<"Summarize the content">> \o
                 (IF FalsyText(query) THEN <<>> ELSE <<" focusing on: ">> \o query)
          [] f = "extract" -> <<"Extract key information">> \o
                 (IF FalsyText(query) THEN <<>> ELSE <<" related to: ">> \o query)
          [] f = "analyze" -> <<"Analyze: ">> \o query
          [] f = "reply" -> <<"Compose a reply: ">> \o query
          [] f = "ask" -> <<"Answer: ">> \o query
          [] f = "stt" -> <<"Process spoken input: ">> \o query]

buildUserMessage(feature, query, pageInfo) ==
    LET pageContext ==
            << AndText(pageInfo.title, <<"Page Title: ">> \o pageInfo.title),
               AndText(pageInfo.url, <<"Page URL: ">> \o pageInfo.url),
               AndText(pageInfo.contentType, <<"Content Type: ">> \o pageInfo.contentType),
               AndText(pageInfo.wordCount,
                       <<"Content Length: ">> \o pageInfo.wordCount \o <<" words">>) >>
        selected ==
            IF FalsyText(pageInfo.selectedText) THEN <<>>
            ELSE << <<"SELECTED TEXT:\n\"">> \o
                    substring(pageInfo.selectedText, SelectedTextLimit) \o <<"\"">> >>
        main ==
            IF FalsyText(pageInfo.mainText) THEN <<>>
            ELSE << <<"PAGE CONTENT:\n">> \o substring(pageInfo.mainText, MainTextLimit) >>
        context == join(filterBoolean(pageContext \o selected \o main), "\n\n")
        task == OrText(lookupText(taskFraming(query), feature), query)
    IN  join(filterBoolean(<< AndText(context, <<"CONTEXT:\n">> \o context),
                              <<"TASK: ">> \o task >>), "\n\n")

historyKept_NonEmpty(msg) == ~FalsyText(msg.content)

\* if (msg.content && msg.content.trim())
historyKept(msg) == ~FalsyText(msg.content) /\ ~FalsyText(trim(msg.content))

historyRole_AsGiven(msg) == msg.type

\* role: msg.type === 'user' ? 'user' : 'assistant'
historyRole(msg) == IF msg.type = "user" THEN "user" ELSE "assistant"

\* conversationHistory.forEach(msg => ... messages.push(...))
RECURSIVE historyMessages(_)
historyMessages(history) ==
    IF history = <<>> THEN <<>>
    ELSE (IF historyKept(Head(history))
          THEN << [role |-> historyRole(Head(history)), content |-> Head(history).content] >>
          ELSE <<>>) \o historyMessages(Tail(history))

buildEnhancedMessages(feature, query, pageInfo, conversationHistory, featurePrompt) ==
    << [role |-> "system",
        content |-> buildSystemPrompt(feature, featurePrompt, pageInfo, CurrentDate)] >>
    \o historyMessages(conversationHistory)
    \o << [role |-> "user", content |-> buildUserMessage(feature, query, pageInfo)] >>

\* a history entry's content that is a number, not a string
NumberText == <<"<number>">>

\* what building the messages throws: msg.content.trim() of a truthy content
\* that is not a string is a TypeError
promptError(request) ==
    IF \E i \in 1..Len(request.conversationHistory) :
           request.conversationHistory[i].content = NumberText
    THEN <<"msg.content.trim is not a function">>
    ELSE <<>>

(******************* GroqHandler.processRequest ****************************)
HandlerDefaultModel == <<"meta-llama/llama-4-maverick-17b-128e-instruct">>

NoPayload ==
    [messages |-> <<>>, model |-> <<>>, temperature |-> None, max_tokens |-> None,
     top_p |-> None]

\* the argument of client.chat.completions.create
chatPayload(request) ==
    LET finalQuery == OrText(request.userQuery, request.query)
    IN  [messages |-> buildEnhancedMessages(request.feature, finalQuery, request.pageInfo,
                          request.conversationHistory, request.featurePrompt),
         model |-> OrText(request.model, HandlerDefaultModel),
         temperature |-> getTemperatureForFeature(request.feature),
         max_tokens |-> getMaxTokensForFeature(request.feature),
         top_p |-> "1"]

\* the outcomes of the awaited chat completion: a completion with content,
\* one without (no choices, no message or empty content), or a rejection
CompletionOutcomes == {"content", "empty", "error"}

CompletionText == <<"<completion>">>

NoProcessResponse ==
    [status |-> 0, error |-> None, message |-> <<>>, stack |-> FALSE,
     response |-> <<>>, model |-> <<>>, usage |-> None]

processRequestResume_ReturnEmpty(payload, outcome) ==
    IF outcome \in {"content", "empty"}
    THEN [ok |-> TRUE, response |-> IF outcome = "content" THEN CompletionText ELSE <<>>,
          model |-> payload.model, usage |-> "<usage>", message |-> <<>>]
    ELSE [ok |-> FALSE, response |-> <<>>, model |-> <<>>, usage |-> None,
          message |-> <<"Groq AI error: ", "Connection error.">>]

\* processRequest from the await to its return ("ok") or throw
processRequestResume(payload, outcome) ==
    IF outcome = "content"
    THEN [ok |-> TRUE, response |-> CompletionText, model |-> payload.model,
          usage |-> "<usage>", message |-> <<>>]
    ELSE [ok |-> FALSE, response |-> <<>>, model |-> <<>>, usage |-> None,
          message |-> <<"Groq AI error: ">> \o
                      (IF outcome = "empty"
                       THEN <<"No response content received from Groq API">>
                       ELSE <<"Connection error.">>)]

(*********************** app/api/process/route.ts **************************)
NoProcessRequest ==
    [variant |-> None, body |-> None, feature |-> None, userQuery |-> <<>>,
     query |-> <<>>, pageInfo |-> NoPage, pageContext |-> NoPage,
     selectedText |-> <<>>, model |-> <<>>, featurePrompt |-> <<>>,
     conversationHistory |-> <<>>]

RouteDefaultModel == <<"openai/gpt-oss-120b">>

\* { ...a, ...b }: the keys of b overwrite those of a
spread_FirstWins(a, b) == [k \in PageKeys |-> IF a[k] # UndefinedText THEN a[k] ELSE b[k]]

spread(a, b) == [k \in PageKeys |-> IF b[k] # UndefinedText THEN b[k] ELSE a[k]]

\* { ...pageInfo, ...pageContext, selectedText: selectedText || pageInfo?.selectedText }
enhancedPageInfo(pageInfo, pageContext, selectedText) ==
    [spread(pageInfo, pageContext) EXCEPT
        !.selectedText = OrText(selectedText, pageInfo.selectedText)]

missingFields_FeatureOnly(feature, finalQuery) == Falsy(feature)

\* if (!feature || !finalQuery)
missingFields(feature, finalQuery) == Falsy(feature) \/ FalsyText(finalQuery)

\* NextResponse.json({error: 'Missing required fields', ...}, {status: 400})
missingFieldsResponse ==
    [NoProcessResponse EXCEPT !.status = 400, !.error = "Missing required fields"]

\* the catch of the route
processError_NoMessage(message, env) ==
    [NoProcessResponse EXCEPT !.status = 500, !.error = "Failed to process request",
                              !.stack = (env = "development")]

processError(message, env) ==
    [NoProcessResponse EXCEPT !.status = 500, !.error = "Failed to process request",
                              !.message = message, !.stack = (env = "development")]

\* NextResponse.json(result)
processOk(result) ==
    [NoProcessResponse EXCEPT !.status = 200, !.response = result.response,
                              !.model = result.model, !.usage = result.usage]

\* request.json() and the destructuring of the body
processBodyError(req) ==
    IF req.body = "malformed" THEN <<"Unexpected token in JSON">>
    ELSE IF req.body = "null"
    THEN <<"Cannot destructure property 'action' of 'body' as it is null.">>
    ELSE <<>>

NoArgs ==
    [feature |-> None, featurePrompt |-> <<>>, conversationHistory |-> <<>>,
     query |-> <<>>, userQuery |-> <<>>, pageInfo |-> NoPage, model |-> <<>>]

\* the argument the enhanced handler gives processRequest
enhancedProcessArgs(req) ==
    [feature |-> req.feature,
     featurePrompt |-> req.featurePrompt,
     conversationHistory |-> req.conversationHistory,
     query |-> OrText(req.userQuery, req.query),
     userQuery |-> UndefinedText,
     pageInfo |-> enhancedPageInfo(req.pageInfo, req.pageContext, req.selectedText),
     model |-> OrText(req.model, RouteDefaultModel)]

\* the argument the simple handler gives processRequest
simpleProcessArgs(req) ==
    [feature |-> req.feature,
     featurePrompt |-> UndefinedText,
     conversationHistory |-> <<>>,
     query |-> req.query,
     userQuery |-> UndefinedText,
     pageInfo |-> req.pageInfo,
     model |-> UndefinedText]

\* a handler of POST /process from the request to its response or to the
\* await of the chat completion
HandleProcess(req, finalQuery, args) ==
    /\ IF processBodyError(req) # <<>>
       THEN /\ presp' = processError(processBodyError(req), nodeEnv)
            /\ ppc' = "responded"
            /\ UNCHANGED <<pinvoked, pargs, psent>>
       ELSE IF missingFields(req.feature, finalQuery)
       THEN /\ presp' = missingFieldsResponse
            /\ ppc' = "responded"
            /\ UNCHANGED <<pinvoked, pargs, psent>>
       ELSE IF promptError(args) # <<>>
       THEN /\ pargs' = args
            /\ pinvoked' = <<"processRequest", "buildEnhancedMessages">>
            /\ presp' = processError(promptError(args), nodeEnv)
            /\ ppc' = "responded"
            /\ UNCHANGED psent
       ELSE /\ pargs' = args
            /\ psent' = chatPayload(args)
            /\ pinvoked' = <<"processRequest", "buildEnhancedMessages",
                             "chat.completions.create">>
            /\ ppc' = "awaiting"
            /\ UNCHANGED presp
    /\ UNCHANGED <<now, fs, calls, nodeEnv, util, tvars, preq, pcompletion>>

\* POST of the enhanced variant
POSTProcessEnhanced ==
    /\ ppc = "received"
    /\ preq.variant = "enhanced"
    /\ HandleProcess(preq, OrText(preq.userQuery, preq.query), enhancedProcessArgs(preq))

\* POST of the simple variant
POSTProcessSimple ==
    /\ ppc = "received"
    /\ preq.variant = "simple"
    /\ HandleProcess(preq, preq.query, simpleProcessArgs(preq))

\* the awaited chat completion settles: processRequest returns or throws and
\* the handler responds
ChatCompletionSettles ==
    /\ ppc = "awaiting"
    /\ \E outcome \in CompletionOutcomes :
         LET result == processRequestResume(psent, outcome)
         IN  /\ pcompletion' = outcome
             /\ presp' = IF result.ok THEN processOk(result)
                           ELSE processError(result.message, nodeEnv)
    /\ ppc' = "responded"
    /\ UNCHANGED <<now, fs, calls, nodeEnv, util, tvars, preq, pinvoked, pargs, psent>>

(************************** specifications *********************************)
\* no POST /process request
ProcessIdle ==
    /\ preq = NoProcessRequest
    /\ ppc = "none"
    /\ pinvoked = <<>>
    /\ pargs = NoArgs
    /\ psent = NoPayload
    /\ pcompletion = None
    /\ presp = NoProcessResponse

\* no POST /transcribe request and no transcribeAudio call
TranscribeIdle ==
    /\ now = 0
    /\ fs = EmptyDisk
    /\ calls = [c \in Calls |-> IdleCall]
    /\ treq = NoRequest
    /\ tpc = "none"
    /\ bodyReads = 0
    /\ tlocals = NoLocals
    /\ tresp = NoResponse
    /\ util = NoUtil

\* concurrent invocations of transcribeAudio
Init ==
    /\ TranscribeIdle
    /\ nodeEnv = "development"
    /\ ProcessIdle

Next ==
    \/ Tick
    \/ \E c \in Calls : TranscribeAudio(c)
    \/ \E c \in Calls : OpenStream(c)
    \/ \E c \in Calls : TranscriptionSettles(c)

Spec == Init /\ [][Next]_vars

\* the AudioUtils helpers and transcribeAudio applied to one MIME type
FormatInputs ==
    SupportedFormats \cup
    {"", "audio/unknown", "audio/x-wav", "AUDIO/WAV", "audio/wav;codecs=1",
     "video/mp4", "constructor", "toString"}

FormatInit ==
    /\ now = 0
    /\ fs = EmptyDisk
    /\ calls = [c \in Calls |-> IdleCall]
    /\ treq = NoRequest
    /\ tpc = "none"
    /\ bodyReads = 0
    /\ tlocals = NoLocals
    /\ tresp = NoResponse
    /\ util \in {[NoUtil EXCEPT !.mimeType = m] : m \in FormatInputs}
    /\ nodeEnv = "development"
    /\ ProcessIdle

FormatNext ==
    \/ ValidateAudioFormat
    \/ GetFileExtension
    \/ Tick
    \/ \E c \in Calls : TranscribeGivenFormat(c)
    \/ \E c \in Calls : OpenStream(c)
    \/ \E c \in Calls : TranscriptionSettles(c)

FormatSpec == FormatInit /\ [][FormatNext]_vars

\* one POST /transcribe request, any variant, any environment
TranscribeInit ==
    /\ now = 0
    /\ fs = EmptyDisk
    /\ calls = [c \in Calls |-> IdleCall]
    /\ nodeEnv \in NodeEnvs
    /\ treq \in TranscribeRequests
    /\ tpc = "received"
    /\ bodyReads = 0
    /\ tlocals = NoLocals
    /\ tresp = NoResponse
    /\ util = NoUtil
    /\ ProcessIdle

TranscribeNext ==
    \/ POSTTranscribeSimple
    \/ POSTTranscribeEnhanced
    \/ OpenStream(RouteCall)
    \/ TranscribeRouteSettles

TranscribeSpec == TranscribeInit /\ [][TranscribeNext]_vars

\* one POST /process request, without conversation history or with one
\* that has an entry whose content is a number
FeatureInputs == TunedFeatures \cup {Undefined, "", "translate", "constructor"}

PageInfoInputs ==
    { NoPage,
      [NoPage EXCEPT !.title = <<"T1">>],
      [NoPage EXCEPT !.title = <<"T1">>, !.selectedText = <<"S1">>],
      [NoPage EXCEPT !.selectedText = <<"S1">>, !.mainText = <<"M1">>] }

PageContextInputs ==
    { NoPage,
      [NoPage EXCEPT !.mainText = <<"M2">>],
      [NoPage EXCEPT !.title = <<"T2">>, !.selectedText = <<"S2">>],
      [NoPage EXCEPT !.title = <<"T2">>, !.mainText = <<"M2">>] }

ProcessRequests ==
    [variant : {"simple", "enhanced"}, body : {"ok"}, feature : FeatureInputs,
     userQuery : {UndefinedText, <<>>, <<"uq">>},
     query : {UndefinedText, <<>>, <<"q">>},
     pageInfo : PageInfoInputs, pageContext : PageContextInputs,
     selectedText : {UndefinedText, <<>>, <<"top">>},
     model : {UndefinedText, <<"llama-3.3-70b-versatile">>},
     featurePrompt : {UndefinedText}, conversationHistory : {<<>>}]
    \cup
    [variant : {"simple", "enhanced"}, body : {"null", "malformed"}, feature : {Undefined},
     userQuery : {UndefinedText}, query : {UndefinedText},
     pageInfo : {NoPage}, pageContext : {NoPage}, selectedText : {UndefinedText},
     model : {UndefinedText}, featurePrompt : {UndefinedText},
     conversationHistory : {<<>>}]
    \cup
    [variant : {"simple", "enhanced"}, body : {"ok"}, feature : {"explain"},
     userQuery : {UndefinedText}, query : {<<"q">>},
     pageInfo : {NoPage}, pageContext : {NoPage}, selectedText : {UndefinedText},
     model : {UndefinedText}, featurePrompt : {UndefinedText},
     conversationHistory :
        { << [type |-> "user", content |-> NumberText] >>,
          << [type |-> "user", content |-> <<"a">>],
             [type |-> "assistant", content |-> NumberText] >> }]

ProcessInit ==
    /\ TranscribeIdle
    /\ nodeEnv \in NodeEnvs
    /\ preq \in ProcessRequests
    /\ ppc = "received"
    /\ pinvoked = <<>>
    /\ pargs = NoArgs
    /\ psent = NoPayload
    /\ pcompletion = None
    /\ presp = NoProcessResponse

ProcessNext ==
    \/ POSTProcessEnhanced
    \/ POSTProcessSimple
    \/ ChatCompletionSettles

ProcessSpec == ProcessInit /\ [][ProcessNext]_vars

\* one POST /process request with a conversation history
MaxHistory == 3

HistoryContents == {<<>>, <<" ">>, <<"a">>, <<" ", "b", " ">>, UndefinedText}

HistoryEntries == [type : {"user", "assistant", "system"}, content : HistoryContents]

Histories == UNION {[1..n -> HistoryEntries] : n \in 0..MaxHistory}

HistoryRequests ==
    [variant : {"enhanced"}, body : {"ok"}, feature : {"explain", "translate"},
     userQuery : {UndefinedText}, query : {<<"q">>},
     pageInfo : {NoPage}, pageContext : {NoPage}, selectedText : {UndefinedText},
     model : {UndefinedText}, featurePrompt : {<<"Translate the page.">>},
     conversationHistory : Histories]

MessagesInit ==
    /\ TranscribeIdle
    /\ nodeEnv = "development"
    /\ preq \in HistoryRequests
    /\ ppc = "received"
    /\ pinvoked = <<>>
    /\ pargs = NoArgs
    /\ psent = NoPayload
    /\ pcompletion = None
    /\ presp = NoProcessResponse

MessagesNext ==
    \/ POSTProcessEnhanced
    \/ ChatCompletionSettles

MessagesSpec == MessagesInit /\ [][MessagesNext]_vars

\* one POST /process request whose page texts are around the truncation limits
Chars(n) == [i \in 1..n |-> IF i % 3 = 0 THEN "a" ELSE IF i % 3 = 1 THEN "b" ELSE "c"]

SelectedTextInputs ==
    {UndefinedText} \cup
    {Chars(n) : n \in {1, SelectedTextLimit - 1, SelectedTextLimit,
                       SelectedTextLimit + 1, SelectedTextLimit + MainTextLimit}}

MainTextInputs ==
    {UndefinedText} \cup
    {Chars(n) : n \in {1, MainTextLimit - 1, MainTextLimit, MainTextLimit + 1,
                       SelectedTextLimit + MainTextLimit}}

LongPageInputs ==
    {[NoPage EXCEPT !.selectedText = sel, !.mainText = main] :
        sel \in SelectedTextInputs, main \in MainTextInputs}

LongTextRequests ==
    [variant : {"simple", "enhanced"}, body : {"ok"}, feature : {"summarize", "translate"},
     userQuery : {UndefinedText}, query : {<<"q">>},
     pageInfo : LongPageInputs,
     pageContext : {NoPage, [NoPage EXCEPT !.mainText = Chars(MainTextLimit + 1)]},
     selectedText : {UndefinedText, Chars(SelectedTextLimit + 1)},
     model : {UndefinedText}, featurePrompt : {UndefinedText},
     conversationHistory : {<<>>}]

TruncationInit ==
    /\ TranscribeIdle
    /\ nodeEnv = "production"
    /\ preq \in LongTextRequests
    /\ ppc = "received"
    /\ pinvoked = <<>>
    /\ pargs = NoArgs
    /\ psent = NoPayload
    /\ pcompletion = None
    /\ presp = NoProcessResponse

TruncationSpec == TruncationInit /\ [][ProcessNext]_vars

\* one POST request to either route
RoutesInit == TranscribeInit \/ ProcessInit

RoutesNext == TranscribeNext \/ ProcessNext

RoutesSpec == RoutesInit /\ [][RoutesNext]_vars

(***************************** claims ***************************************)
\* C1: when a call of transcribeAudio finishes, by returning a transcript or
\* by throwing, the temp file path that call computed does not exist on disk.
C1_TempFileGoneWhenCallFinishes ==
    [][\A c \in Calls :
         (calls[c].pc # "done" /\ calls'[c].pc = "done" /\ calls'[c].path # NoPath)
         => ~existsSync(fs', calls'[c].path)]_vars

\* C1 witness: one call has returned a transcript and another has thrown after
\* its write failed, and neither call's temp file is on disk.
C1_Witness ==
    \E c, d \in Calls :
        /\ calls[c].pc = "done" /\ calls[c].ok /\ calls[c].path # NoPath
        /\ ~existsSync(fs, calls[c].path)
        /\ calls[d].pc = "done" /\ ~calls[d].ok /\ calls[d].path # NoPath
        /\ calls[d].apiCalls = 0
        /\ ~existsSync(fs, calls[d].path)

\* C2: any two calls of transcribeAudio in flight at the same time computed
\* different temp file paths.
C2_InFlightPathsDiffer ==
    \A c, d \in Calls :
        (c # d /\ calls[c].pc = "awaiting" /\ calls[d].pc = "awaiting")
        => calls[c].path # calls[d].path

\* the request carries audio: an `audio` file field of a multipart body, or a
\* non-empty `audio` key of a JSON object
CarriesAudio(req) ==
    /\ req.body = "ok"
    /\ \/ req.contentType = Multipart /\ req.audio # Null
       \/ req.contentType = Json /\ ~Falsy(req.audio)

\* the handler's call of transcribeAudio threw
AdapterFailed == calls[RouteCall].pc = "done" /\ ~calls[RouteCall].ok

\* C3: the form-data + JSON handler answers every request that carries audio
\* with 200 {transcription, success: true, model, language}, unless its call of
\* transcribeAudio failed.
C3_AudioRequestGets200 ==
    (tpc = "responded" /\ treq.variant = "enhanced" /\ CarriesAudio(treq)
     /\ ~AdapterFailed)
    => /\ tresp.status = 200
       /\ tresp.success
       /\ tresp.transcription # None
       /\ tresp.model # None
       /\ tresp.language # None

\* C4: for form data with a supported audio blob and neither a `model` nor a
\* `language` field, the form-data + JSON handler passes the defaults
\* "whisper-large-v3-turbo" and "en" to transcribeAudio and echoes them in its
\* response.
C4_FormDefaultsPassedAndEchoed ==
    (tpc = "responded" /\ treq.variant = "enhanced" /\ treq.contentType = Multipart
     /\ CarriesAudio(treq) /\ validateAudioFormat(treq.mimeType)
     /\ treq.model = Null /\ treq.language = Null /\ ~AdapterFailed)
    => /\ calls[RouteCall].options.model = DefaultTranscriptionModel
       /\ calls[RouteCall].options.language = DefaultLanguage
       /\ tresp.model = DefaultTranscriptionModel
       /\ tresp.language = DefaultLanguage

\* message contains the phrase
Contains(message, phrase) == \E i \in DOMAIN message : message[i] = phrase

\* C5: a JSON body with audio and mimeType "audio/unknown" reaches the format
\* check of transcribeAudio and is answered 500 with a message containing
\* "Unsupported audio format".
C5_UnknownMimeTypeIsUnsupportedFormat500 ==
    (tpc = "responded" /\ treq.variant = "enhanced" /\ treq.contentType = Json
     /\ CarriesAudio(treq) /\ treq.mimeType = "audio/unknown")
    => /\ calls[RouteCall].pc = "done"
       /\ tresp.status = 500
       /\ Contains(tresp.message, "Unsupported audio format: ")

\* the audio is missing, or the content type is neither multipart nor JSON
AudioMissing(req) ==
    \/ req.contentType = Multipart /\ req.body = "ok" /\ req.audio = Null
    \/ req.contentType = Json /\ req.body = "ok" /\ req.audio = Undefined
    \/ req.contentType \notin {Multipart, Json}

\* C6: the form-data + JSON handler never calls transcribeAudio for a request
\* without audio or with an unsupported content type, and answers it 400.
C6_MissingAudioIs400WithoutAdapter ==
    (treq.variant = "enhanced" /\ AudioMissing(treq))
    => /\ calls[RouteCall].pc = "idle"
       /\ tpc = "responded" => tresp.status = 400

\* C6 witness: a JSON object without an `audio` key was answered 400.
C6_Witness ==
    /\ treq.variant = "enhanced" /\ treq.contentType = Json /\ treq.body = "ok"
    /\ treq.audio = Undefined
    /\ tpc = "responded" /\ tresp.status = 400
    /\ calls[RouteCall].pc = "idle"

\* a required field is missing: absent, null or empty
Missing(req) ==
    \/ Falsy(req.feature)
    \/ FalsyText(req.userQuery) /\ FalsyText(req.query)

Given(t) == t \notin {<<>>, UndefinedText, NullText}

\* C8 as claimed: in the merged page info every key that pageContext and
\* pageInfo both have, selectedText included, has the pageContext value, and
\* selectedText is the top-level field when given, else pageInfo.selectedText.
C8_PageContextWinsOnEveryKey ==
    (preq.variant = "enhanced" /\ pinvoked # <<>>)
    => /\ \A k \in PageKeys :
            (preq.pageInfo[k] # UndefinedText /\ preq.pageContext[k] # UndefinedText)
            => pargs.pageInfo[k] = preq.pageContext[k]
       /\ pargs.pageInfo.selectedText =
            IF Given(preq.selectedText) THEN preq.selectedText
            ELSE preq.pageInfo.selectedText

\* C8 as amended: every key other than selectedText that pageContext and
\* pageInfo both have has the pageContext value; selectedText is the top-level
\* field when given, else pageInfo.selectedText, whatever pageContext holds.
C8_PageContextWinsExceptSelectedText ==
    (preq.variant = "enhanced" /\ pinvoked # <<>>)
    => /\ \A k \in PageKeys \ {"selectedText"} :
            (preq.pageInfo[k] # UndefinedText /\ preq.pageContext[k] # UndefinedText)
            => pargs.pageInfo[k] = preq.pageContext[k]
       /\ pargs.pageInfo.selectedText =
            IF Given(preq.selectedText) THEN preq.selectedText
            ELSE preq.pageInfo.selectedText

\* C8 witness: pageInfo and pageContext overlap on title and selectedText and
\* no top-level selectedText is given: the title is pageContext's, the selected
\* text pageInfo's.
C8_Witness ==
    /\ preq.variant = "enhanced" /\ pinvoked # <<>>
    /\ preq.pageInfo.title = <<"T1">> /\ preq.pageContext.title = <<"T2">>
    /\ preq.pageInfo.selectedText = <<"S1">> /\ preq.pageContext.selectedText = <<"S2">>
    /\ ~Given(preq.selectedText)
    /\ pargs.pageInfo.title = <<"T2">>
    /\ pargs.pageInfo.selectedText = <<"S1">>

\* the entry has content that is not all whitespace
NonBlank(msg) ==
    /\ msg.content # UndefinedText
    /\ \E i \in DOMAIN msg.content : msg.content[i] \notin Whitespace

\* C9: the messages sent are one system message, then the history entries with
\* non-blank content in their order, then the current user message; no other
\* message has role system.
C9_SystemThenHistoryThenUser ==
    (preq.variant = "enhanced" /\ pinvoked # <<>>)
    => LET kept == SelectSeq(preq.conversationHistory, NonBlank)
           msgs == psent.messages
       IN  /\ Len(msgs) = Len(kept) + 2
           /\ msgs[1].role = "system"
           /\ \A i \in 2..Len(msgs) : msgs[i].role # "system"
           /\ \A i \in 1..Len(kept) : msgs[i + 1].content = kept[i].content
           /\ msgs[Len(msgs)] =
                [role |-> "user",
                 content |-> buildUserMessage(pargs.feature, pargs.query, pargs.pageInfo)]

\* C9 witness: a history of a blank entry between two different non-blank ones
\* was sent as four messages.
C9_Witness ==
    /\ preq.variant = "enhanced" /\ pinvoked # <<>>
    /\ Len(preq.conversationHistory) = 3
    /\ preq.conversationHistory[1].content = <<"a">>
    /\ preq.conversationHistory[2].content = <<" ">>
    /\ preq.conversationHistory[3].content = <<" ", "b", " ">>
    /\ Len(psent.messages) = 4
    /\ psent.messages[2].content = <<"a">>
    /\ psent.messages[3].content = <<" ", "b", " ">>

\* C10: the temperature and token limit sent are the table values for the
\* eight tuned features and 0.7 and 2048 for every other feature tag; top_p is 1.
C10_TuningFromTablesElseDefaults ==
    (preq.variant = "enhanced" /\ pinvoked # <<>>)
    => /\ psent.temperature =
            IF preq.feature \in TunedFeatures THEN temperatures[preq.feature] ELSE "0.7"
       /\ psent.max_tokens =
            IF preq.feature \in TunedFeatures THEN tokenLimits[preq.feature] ELSE "2048"
       /\ psent.top_p = "1"

\* C11: validateAudioFormat(mimeType) returns true exactly when mimeType is one
\* of audio/wav, audio/webm, audio/mpeg, audio/mp4, audio/ogg, false for every
\* other string, and applying it changes nothing else.
C11_ValidExactlyForTheFiveTypes ==
    [][(~util.validated /\ util'.validated) =>
          /\ util'.valid <=> util'.mimeType \in {"audio/wav", "audio/webm", "audio/mpeg",
                                                  "audio/mp4", "audio/ogg"}
          /\ util' = [util EXCEPT !.validated = TRUE, !.valid = util'.valid]
          /\ UNCHANGED <<now, fs, calls, nodeEnv, tvars, pvars>>]_vars

C11_Witness ==
    /\ util.validated
    /\ util.mimeType = "audio/x-wav"
    /\ ~util.valid

\* the text that follows the piece `marker` in `message` is the first `limit`
\* characters of `text` (all of it when it has no more), and `closing` follows it
CutAfter(message, marker, text, limit, closing) ==
    LET k == IF Len(text) > limit THEN limit ELSE Len(text)
    IN  \E i \in 1..Len(message) :
            /\ message[i] = marker
            /\ i + k + 1 <= Len(message)
            /\ SubSeq(message, i + 1, i + k) = SubSeq(text, 1, k)
            /\ message[i + k + 1] = closing

UserMessage == psent.messages[Len(psent.messages)].content

\* C12: in the user message, a selected text longer than 2000 characters is cut
\* to exactly its first 2000 characters and a main text longer than 6000 to
\* exactly its first 6000; a text at or under its limit is included unchanged.
C12_TextsCutAtTheirLimits ==
    psent # NoPayload =>
        /\ ~FalsyText(pargs.pageInfo.selectedText) =>
               CutAfter(UserMessage, "SELECTED TEXT:\n\"", pargs.pageInfo.selectedText,
                        2000, "\"")
        /\ ~FalsyText(pargs.pageInfo.mainText) =>
               CutAfter(UserMessage, "PAGE CONTENT:\n", pargs.pageInfo.mainText,
                        6000, "\n\n")

C12_Witness ==
    /\ psent # NoPayload
    /\ Len(pargs.pageInfo.selectedText) = 2001
    /\ Len(pargs.pageInfo.mainText) = 6001
    /\ CutAfter(UserMessage, "SELECTED TEXT:\n\"", Chars(2000), 2000, "\"")
    /\ CutAfter(UserMessage, "PAGE CONTENT:\n", Chars(6000), 6000, "\n\n")

\* the shapes of a response of POST /transcribe
TranscribeSuccessBody(r) ==
    /\ r.status = 200 /\ r.success
    /\ r.transcription # None /\ r.model # None /\ r.language # None
    /\ r.error = None /\ r.message = <<>> /\ ~r.stack

TranscribeErrorBody(r) ==
    /\ r.status \in {400, 500} /\ r.error # None
    /\ r.status = 500 => r.message # <<>>
    /\ r.transcription = None /\ ~r.success /\ r.model = None /\ r.language = None

\* the shapes of a response of POST /process
ProcessSuccessBody(r) ==
    /\ r.status = 200 /\ r.response # <<>> /\ r.model # <<>> /\ r.usage # None
    /\ r.error = None /\ r.message = <<>> /\ ~r.stack

ProcessErrorBody(r) ==
    /\ r.status \in {400, 500} /\ r.error # None
    /\ r.status = 500 => r.message # <<>>
    /\ r.response = <<>> /\ r.model = <<>> /\ r.usage = None

\* an error was raised while the request was handled
TranscribeErrorRaised ==
    \/ treq.body = "malformed"
    \/ calls[RouteCall].pc = "done" /\ ~calls[RouteCall].ok

ProcessErrorRaised ==
    \/ preq.body \in {"malformed", "null"}
    \/ pargs # NoArgs /\ psent = NoPayload
    \/ pcompletion \in {"empty", "error"}

\* C13: a POST to either route is answered once, with the full success body
\* or with a single error object; an error raised while parsing the body,
\* building the prompt or calling the adapter is answered with status 500
\* and an `error` and a `message`, never left uncaught and never mixed with
\* success fields.
C13_OneResponseSuccessOrError ==
    /\ [](/\ tpc # "responded" => tresp = NoResponse
          /\ ppc # "responded" => presp = NoProcessResponse
          /\ tpc = "responded" =>
                /\ TranscribeSuccessBody(tresp) \/ TranscribeErrorBody(tresp)
                /\ TranscribeErrorRaised => tresp.status = 500
          /\ ppc = "responded" =>
                /\ ProcessSuccessBody(presp) \/ ProcessErrorBody(presp)
                /\ ProcessErrorRaised => presp.status = 500)
    /\ [][/\ tpc = "responded" => tpc' = tpc /\ tresp' = tresp
          /\ ppc = "responded" => ppc' = ppc /\ presp' = presp]_vars

C13_Witness ==
    /\ ppc = "responded"
    /\ pargs # NoArgs
    /\ psent = NoPayload
    /\ presp.status = 500
    /\ presp.error = "Failed to process request"
    /\ presp.message = <<"msg.content.trim is not a function">>

\* how many chat completions the process handler requested
ChatCalls ==
    Cardinality({i \in DOMAIN pinvoked : pinvoked[i] = "chat.completions.create"})

\* the remote call of the request failed
RemoteFailed ==
    \/ pcompletion \in {"empty", "error"}
    \/ calls[RouteCall].pc = "done" /\ calls[RouteCall].apiCalls > 0
                                    /\ ~calls[RouteCall].ok

\* C14: a request makes at most one call to the remote API, one chat
\* completion per process request and one transcription call per transcribe
\* request, and after a remote failure no further call is made.
C14_AtMostOneRemoteCall ==
    /\ [](ChatCalls <= 1 /\ \A c \in Calls : calls[c].apiCalls <= 1)
    /\ [][RemoteFailed =>
             /\ ChatCalls' = ChatCalls
             /\ \A c \in Calls : calls'[c].apiCalls = calls[c].apiCalls]_vars

C14_Witness ==
    /\ tpc = "responded"
    /\ tresp.status = 500
    /\ calls[RouteCall].apiCalls = 1
    /\ calls[RouteCall].message = <<"Transcription failed: ", "Connection error.">>

\* C15: a 500 response of the process or the transcribe route carries the
\* stack trace only outside production: with NODE_ENV = production no
\* response has a `stack` field.
C15_NoStackInProduction ==
    /\ tresp.stack => nodeEnv # "production" /\ tresp.status = 500
    /\ presp.stack => nodeEnv # "production" /\ presp.status = 500

C15_Witness ==
    /\ nodeEnv = "production"
    /\ tpc = "responded"
    /\ tresp.status = 500
    /\ tresp.message # <<>>
    /\ ~tresp.stack

\* C16: when the chat completion comes back without message content (no
\* choices, no message, or empty content) processRequest fails, the failure
\* is wrapped as a remote-API error, and the process route answers 500.
C16_EmptyCompletionIs500 ==
    pcompletion = "empty" =>
        /\ ppc = "responded"
        /\ presp.status = 500
        /\ presp.error = "Failed to process request"
        /\ Len(presp.message) > 1
        /\ presp.message[1] = "Groq AI error: "
        /\ presp.response = <<>>

C16_Witness ==
    /\ pcompletion = "empty"
    /\ preq.variant = "enhanced"
    /\ presp.status = 500
    /\ presp.message = <<"Groq AI error: ", "No response content received from Groq API">>

\* C17: in transcribeAudio the MIME validation comes before every other step:
\* a type outside the allow-list fails the call with "Unsupported audio
\* format" without creating a temp file and without calling the remote
\* endpoint.
C17_RejectedFormatTouchesNothing ==
    [][\A c \in Calls :
          (/\ calls[c].pc = "idle"
           /\ calls'[c].pc # "idle"
           /\ calls'[c].mimeType \notin {"audio/wav", "audio/webm", "audio/mpeg",
                                          "audio/mp4", "audio/ogg"})
          => /\ calls'[c].pc = "done"
             /\ ~calls'[c].ok
             /\ calls'[c].message = <<"Transcription failed: ",
                                      "Unsupported audio format: ", calls'[c].mimeType>>
             /\ calls'[c].path = NoPath
             /\ calls'[c].apiCalls = 0
             /\ fs' = fs]_vars

C17_Witness ==
    /\ calls[1].pc = "done"
    /\ calls[1].mimeType = "audio/x-wav"
    /\ calls[1].message = <<"Transcription failed: ", "Unsupported audio format: ",
                            "audio/x-wav">>
    /\ calls[1].apiCalls = 0
    /\ fs = EmptyDisk

\* the history entries of the request that are sent on
KeptHistory == SelectSeq(preq.conversationHistory, NonBlank)

\* C18: a message built from a history entry has role `user` when the entry's
\* type tag is "user" and role `assistant` for every other tag; no history
\* entry produces a message of role `system`.
C18_HistoryRoleUserOrAssistant ==
    psent # NoPayload =>
        \A i \in 1..Len(KeptHistory) :
            /\ KeptHistory[i].type = "user" => psent.messages[i + 1].role = "user"
            /\ KeptHistory[i].type # "user" => psent.messages[i + 1].role = "assistant"

C18_Witness ==
    /\ psent # NoPayload
    /\ \E i \in 1..Len(KeptHistory) :
           /\ KeptHistory[i].type = "system"
           /\ psent.messages[i + 1].role = "assistant"
    /\ \E i \in 1..Len(KeptHistory) :
           /\ KeptHistory[i].type = "user"
           /\ psent.messages[i + 1].role = "user"

\* C19: for every allow-listed MIME type the extension of the temp file path
\* transcribeAudio computes (getFfmpegFormat) is the extension
\* AudioUtils.getFileExtension gives, and a type outside the map gives "wav".
C19_PathExtensionIsFileExtension ==
    util.mapped =>
        /\ \A c \in Calls :
               calls[c].path # NoPath => calls[c].path[2] = util.extension
        /\ util.mimeType \notin SupportedFormats => util.extension = "wav"

\* C20: on every path through POST /transcribe the handler calls
\* request.formData() or request.json() at most once on the request.
C20_BodyReadAtMostOnce == bodyReads <= 1

\* C21: under any interleaving of concurrent transcribeAudio calls a call's
\* outcome depends on its own inputs and remote response only: the file
\* streamed to the remote endpoint holds the call's own audio, and a call
\* whose write and remote call succeeded is not failed because another call
\* removed its temp file.
C21_CallsDoNotInterfere ==
    \A c \in Calls :
        /\ calls[c].stream # Unopened => calls[c].stream = calls[c].audio
        /\ calls[c].pc = "done" /\ calls[c].apiCalls > 0 /\ ~calls[c].ok
              => calls[c].message = <<"Transcription failed: ", "Connection error.">>

====
